---- MODULE Spec2Model ----
(***************************************************************************)
(* Model of the TACL language server (server/src/server.ts) and of the     *)
(* hover provider of its client (client/src/extension.ts).                 *)
(*                                                                         *)
(* A text is a sequence of one-character strings.  Offsets are 0-based as  *)
(* in JavaScript: the character at offset i of text is text[i + 1].        *)
(*                                                                         *)
(* The server runs on one JavaScript event loop.  A handler runs to        *)
(* completion, and the continuations of awaits on promises that are        *)
(* already settled run as microtasks before the next message is            *)
(* dispatched; so one action is one message: the handler and the           *)
(* microtasks it leaves behind.  A validation stays suspended across       *)
(* messages only while the workspace/configuration request it awaits is    *)
(* unanswered.                                                             *)
(***************************************************************************)
EXTENDS Integers, Sequences, FiniteSets, TLC

VARIABLES
    hasConfigurationCapability,                 \* server.ts:33
    hasDiagnosticRelatedInformationCapability,  \* server.ts:35
    globalSettings,      \* server.ts:94
    documentSettings,    \* server.ts:97, uri -> id of the cached lookup, 0 = no entry
    lookups,             \* the workspace/configuration requests issued so far
    documents,           \* server.ts:31, uri -> id of the open TextDocument, 0 = not open
    heap,                \* the TextDocument objects created so far
    tasks,               \* the calls of validateTaclDocument, in the order they started
    sent,                \* the publishDiagnostics notifications, in the order they were sent
    reply,               \* the last response to a completion / resolve request
    hoverDes,            \* extension.ts:8, the hover table
    hover,               \* the last result of provideHover
    consoleLog           \* the last line written by console.log in provideHover

vars == << hasConfigurationCapability, hasDiagnosticRelatedInformationCapability,
           globalSettings, documentSettings, lookups, documents, heap, tasks, sent,
           reply, hoverDes, hover, consoleLog >>

(***************************************************************************)
(* Bounds of the model.                                                    *)
(***************************************************************************)
MaxLen == 5          \* longest text of the validator specification
MaxTasks == 3        \* validations started in one behaviour
NumKeywords == 3     \* rows of config/keyword.json
MaxHover == 3        \* rows of config/hover.json

Max(S) == CHOOSE x \in S : \A y \in S : y <= x
Min(S) == CHOOSE x \in S : \A y \in S : x <= y

(***************************************************************************)
(* Characters.  "A" and "Z" stand for the class [A-Z]; "a" for the other   *)
(* word characters (\w: lowercase letters, digits, underscore); " " and    *)
(* the line feed for the non-word characters.  The texts enumerated for    *)
(* the validator use one character of each class.                          *)
(***************************************************************************)
LF == "\n"
Upper == {"A", "Z"}
WordChars == Upper \cup {"a"}
Alphabet == {"A", "a", " ", LF}

RECURSIVE TextsOfLen(_)
TextsOfLen(n) ==
    IF n = 0 THEN {<< >>}
    ELSE {Append(t, c) : t \in TextsOfLen(n - 1), c \in Alphabet}

AllTexts == UNION {TextsOfLen(n) : n \in 0..MaxLen}

\* substring of text from offset s (inclusive) to offset e (exclusive)
Slice(text, s, e) == SubSeq(text, s + 1, e)

(***************************************************************************)
(* Settings.  A settings value is an ExampleSettings object or null.       *)
(***************************************************************************)
DefaultMaxNumberOfProblems == 1000

ExampleSettings(n) == [null |-> FALSE, maxNumberOfProblems |-> n]
NullSettings == [null |-> TRUE, maxNumberOfProblems |-> 0]
defaultSettings == ExampleSettings(DefaultMaxNumberOfProblems)

(***************************************************************************)
(* The regular expression /\b[A-Z]{2,}\b/g.                                *)
(***************************************************************************)
IsWordAt(text, i) == i >= 0 /\ i < Len(text) /\ text[i + 1] \in WordChars

\* \b at offset i: exactly one of the characters before and after is a word character
WordBoundary_none(text, i) == TRUE
WordBoundary(text, i) == IsWordAt(text, i - 1) # IsWordAt(text, i)

\* [A-Z]{2,} is greedy: the offset after the longest run of [A-Z] that starts at i
RECURSIVE UpperRunEnd(_, _)
UpperRunEnd(text, i) ==
    IF i < Len(text) /\ text[i + 1] \in Upper THEN UpperRunEnd(text, i + 1) ELSE i

\* a match attempt at offset i: \b, then the longest run, backtracking to shorter
\* ones (never below two characters) until the closing \b holds; -1 when none does
MatchEndAt(text, i) ==
    IF ~WordBoundary(text, i) THEN -1
    ELSE LET ends == {j \in (i + 2)..UpperRunEnd(text, i) : WordBoundary(text, j)}
         IN IF ends = {} THEN -1 ELSE Max(ends)

\* pattern.exec(text) with the g flag: the leftmost match at or after lastIndex;
\* lastIndex becomes the end of the match, or 0 when there is none
RegExpExec(text, lastIndex) ==
    LET starts == {i \in lastIndex..Len(text) : MatchEndAt(text, i) # -1}
    IN IF starts = {}
       THEN [found |-> FALSE, index |-> 0, end |-> 0, lastIndex |-> 0]
       ELSE LET i == Min(starts)
            IN [found |-> TRUE, index |-> i, end |-> MatchEndAt(text, i),
                lastIndex |-> MatchEndAt(text, i)]

(***************************************************************************)
(* TextDocument.positionAt: the line is the number of line breaks before   *)
(* the offset, the character the distance from the start of that line.     *)
(***************************************************************************)
LineStarts(text) == {0} \cup {i \in 1..Len(text) : text[i] = LF}

positionAt(text, offset) ==
    LET o == IF offset > Len(text) THEN Len(text) ELSE offset
        before == {s \in LineStarts(text) : s <= o}
    IN [line |-> Cardinality(before) - 1, character |-> o - Max(before)]

(***************************************************************************)
(* One diagnostic (server.ts:152-178).                                     *)
(***************************************************************************)
MsgSuffix == " is all uppercase. Can you please fix that"

RelatedInformation(uri, range) ==
    << [location |-> [uri |-> uri, range |-> range], message |-> "Spelling matters"],
       [location |-> [uri |-> uri, range |-> range], message |-> "Particularly for names"] >>

MakeDiagnostic(uri, text, m, rel) ==
    LET range == [start |-> positionAt(text, m.index), end |-> positionAt(text, m.end)]
    IN [severity |-> "Warning",
        range |-> range,
        message |-> Append(Slice(text, m.index, m.end), MsgSuffix),
        source |-> "ex",
        relatedInformation |-> IF rel THEN RelatedInformation(uri, range) ELSE << >>]

(***************************************************************************)
(* The loop of validateTaclDocument (server.ts:150-180).  The condition is *)
(* (m = pattern.exec(text)) && problems < settings.maxNumberOfProblems:    *)
(* exec runs first, and settings is dereferenced only when it matched, so  *)
(* a null settings throws a TypeError exactly when the text has a match.   *)
(***************************************************************************)
WithinCap_off(problems, settings) == problems <= settings.maxNumberOfProblems
WithinCap(problems, settings) == problems < settings.maxNumberOfProblems

\* Op applied to the value of v, which is computed once
Once(v, Op(_)) == CHOOSE r \in {Op(x) : x \in {v}} : TRUE

RECURSIVE ScanLoop(_, _, _, _, _, _, _)
ScanLoop(uri, text, settings, rel, lastIndex, problems, diagnostics) ==
    LET out(m, threw) == [threw |-> threw, diagnostics |-> diagnostics,
                          lastIndex |-> m.lastIndex, problems |-> problems]
        Step(m) ==
            IF ~m.found THEN out(m, FALSE)
            ELSE IF settings.null THEN out(m, TRUE)
            ELSE IF ~WithinCap(problems, settings) THEN out(m, FALSE)
            ELSE ScanLoop(uri, text, settings, rel, m.lastIndex, problems + 1,
                          Append(diagnostics, MakeDiagnostic(uri, text, m, rel)))
    IN Once(RegExpExec(text, lastIndex), Step)

\* let problems = 0 (server.ts:148): every pass starts its counter afresh, whatever
\* the passes before it published
InitialProblems_kept(published) ==
    IF published = << >> THEN 0 ELSE Len(published[Len(published)].diagnostics)
InitialProblems(published) == 0

(***************************************************************************)
(* The server's state that a handler and its microtasks update, passed     *)
(* through the operators below as a record.                                *)
(***************************************************************************)
URIs == {"file:///a", "file:///b"}

ServerState ==
    [documentSettings |-> documentSettings, lookups |-> lookups, tasks |-> tasks,
     sent |-> sent]

\* documents.all(): the open documents in the order they were opened (Map order)
RECURSIVE InOrder(_)
InOrder(S) ==
    IF S = {} THEN << >>
    ELSE LET u == CHOOSE x \in S : \A y \in S : documents[x] <= documents[y]
         IN << u >> \o InOrder(S \ {u})

OpenUris(docs) == {u \in URIs : docs[u] # 0}

(***************************************************************************)
(* getDocumentSettings (server.ts:113-126).  Without the configuration     *)
(* capability the promise is Promise.resolve(globalSettings): lookup 0,    *)
(* settled at once.  With it, the cached lookup of the resource, or a new  *)
(* workspace/configuration request that is then cached.                    *)
(***************************************************************************)
getDocumentSettings(S, resource) ==
    IF ~hasConfigurationCapability THEN [S |-> S, result |-> 0]
    ELSE IF S.documentSettings[resource] # 0
    THEN [S |-> S, result |-> S.documentSettings[resource]]
    ELSE LET id == Len(S.lookups) + 1
         IN [S |-> [S EXCEPT !.lookups = Append(@, [uri |-> resource, status |-> "pending",
                                                    value |-> NullSettings]),
                             !.documentSettings[resource] = id],
             result |-> id]

(***************************************************************************)
(* validateTaclDocument up to its await (server.ts:139-141): the call of   *)
(* getDocumentSettings runs synchronously, then the task is suspended.     *)
(* The task holds a reference to the TextDocument object, not its text.    *)
(***************************************************************************)
validateTaclDocument(S, textDocument, kind, gs, hp) ==
    LET g == getDocumentSettings(S, hp[textDocument].uri)
    IN [g.S EXCEPT !.tasks = Append(@, [uri |-> hp[textDocument].uri,
                                        obj |-> textDocument,
                                        lookup |-> g.result,
                                        kind |-> kind,
                                        state |-> "awaiting",
                                        settings |-> gs,
                                        startText |-> hp[textDocument].text,
                                        text |-> << >>])]

\* the promise task t awaits, as a settled or pending lookup
Awaited(S, t) ==
    IF t.lookup = 0 THEN [status |-> "resolved", value |-> t.settings]
    ELSE S.lookups[t.lookup]

\* textDocument.getText() at server.ts:144, read when the task resumes
getText_atStart(t, hp) == t.startText
getText(t, hp) == hp[t.obj].text

\* connection.sendDiagnostics (server.ts:189)
sendDiagnostics_guarded(S, k, diagnostics) ==
    IF \E j \in 1..Len(S.sent) : S.sent[j].uri = S.tasks[k].uri /\ S.sent[j].task > k
    THEN S.sent
    ELSE Append(S.sent, [uri |-> S.tasks[k].uri, diagnostics |-> diagnostics, task |-> k])
sendDiagnostics(S, k, diagnostics) ==
    Append(S.sent, [uri |-> S.tasks[k].uri, diagnostics |-> diagnostics, task |-> k])

(***************************************************************************)
(* validateTaclDocument after its await (server.ts:141-190), for task k    *)
(* whose promise is settled.  A rejected promise rejects the task; a       *)
(* TypeError in the loop does too; otherwise the list is published.  The   *)
(* task records the text and the settings it read.                         *)
(***************************************************************************)
Continue(S, k, hp) ==
    LET t == S.tasks[k]
        p == Awaited(S, t)
        text == getText(t, hp)
        End(r) ==
            [S EXCEPT !.tasks[k].state = IF r.threw THEN "threw" ELSE "sent",
                      !.tasks[k].text = text,
                      !.tasks[k].settings = p.value,
                      !.sent = IF r.threw THEN @ ELSE sendDiagnostics(S, k, r.diagnostics)]
    IN IF p.status = "rejected"
       THEN [S EXCEPT !.tasks[k].state = "rejected"]
       ELSE Once(ScanLoop(t.uri, text, p.value, hasDiagnosticRelatedInformationCapability,
                          0, InitialProblems(S.sent), << >>), End)

\* the microtask queue: every suspended task whose promise is settled resumes,
\* in the order the tasks were suspended, before the next message is dispatched
RECURSIVE RunMicrotasks(_, _, _)
RunMicrotasks(S, k, hp) ==
    IF k > Len(S.tasks) THEN S
    ELSE IF S.tasks[k].state = "awaiting" /\ Awaited(S, S.tasks[k]).status # "pending"
    THEN Once(Continue(S, k, hp), LAMBDA next : RunMicrotasks(next, k + 1, hp))
    ELSE RunMicrotasks(S, k + 1, hp)

\* documents.all().forEach(validateTaclDocument) (server.ts:110)
RECURSIVE ValidateAll(_, _, _, _)
ValidateAll(S, uris, gs, hp) ==
    IF uris = << >> THEN S
    ELSE ValidateAll(validateTaclDocument(S, documents[Head(uris)], "config", gs, hp),
                     Tail(uris), gs, hp)

Commit(S) ==
    /\ documentSettings' = S.documentSettings
    /\ lookups' = S.lookups
    /\ tasks' = S.tasks
    /\ sent' = S.sent

\* a handler that started from server state S runs to its end, and then the microtasks
Handle(S, hp) ==
    \E S0 \in {S} : \E S1 \in {RunMicrotasks(S0, 1, hp)} : Commit(S1)

\* the event loop takes the next message whenever no handler is running; a suspended
\* validation is not a running handler
CanDispatch_blocking == \A k \in 1..Len(tasks) : tasks[k].state # "awaiting"
CanDispatch == TRUE

\* room within the bound for n more validations
Room(n) == Len(tasks) + n <= MaxTasks

NoEntry == [u \in URIs |-> 0]

(***************************************************************************)
(* Document notifications.  TextDocuments creates the object on open,      *)
(* updates it in place on change and forgets it on close; open and change  *)
(* fire onDidChangeContent (server.ts:135-137), close fires onDidClose     *)
(* (server.ts:129-131).                                                    *)
(***************************************************************************)
DidOpen(u, text) ==
    /\ CanDispatch
    /\ documents[u] = 0
    /\ Room(1)
    /\ LET obj == Len(heap) + 1
           hp == Append(heap, [uri |-> u, text |-> text])
       IN /\ heap' = hp
          /\ documents' = [documents EXCEPT ![u] = obj]
          /\ Handle(validateTaclDocument(ServerState, obj, "open", globalSettings, hp), hp)
    /\ UNCHANGED << hasConfigurationCapability, hasDiagnosticRelatedInformationCapability,
                    globalSettings, reply, hoverDes, hover, consoleLog >>

DidChange(u, text) ==
    /\ CanDispatch
    /\ documents[u] # 0
    /\ heap[documents[u]].text # text
    /\ Room(1)
    /\ LET hp == [heap EXCEPT ![documents[u]].text = text]
       IN /\ heap' = hp
          /\ Handle(validateTaclDocument(ServerState, documents[u], "change",
                                         globalSettings, hp), hp)
    /\ UNCHANGED << hasConfigurationCapability, hasDiagnosticRelatedInformationCapability,
                    globalSettings, documents, reply, hoverDes, hover,
                    consoleLog >>

DidClose(u) ==
    /\ CanDispatch
    /\ documents[u] # 0
    /\ documents' = [documents EXCEPT ![u] = 0]
    /\ documentSettings' = [documentSettings EXCEPT ![u] = 0]
    /\ UNCHANGED << hasConfigurationCapability, hasDiagnosticRelatedInformationCapability,
                    globalSettings, lookups, heap, tasks, sent, reply, hoverDes, hover, consoleLog >>

(***************************************************************************)
(* connection.onDidChangeConfiguration (server.ts:99-111).  section is     *)
(* change.settings.languageServerExample, NullSettings when it is absent.  *)
(***************************************************************************)
ClearedSettings_kept(ds) == ds
ClearedSettings(ds) == NoEntry

DidChangeConfiguration(section) ==
    /\ CanDispatch
    /\ Room(Cardinality(OpenUris(documents)))
    /\ LET gs == IF hasConfigurationCapability THEN globalSettings
                 ELSE IF section.null THEN defaultSettings ELSE section
           S0 == IF hasConfigurationCapability
                 THEN [ServerState EXCEPT !.documentSettings = ClearedSettings(@)]
                 ELSE ServerState
       IN /\ globalSettings' = gs
          /\ Handle(ValidateAll(S0, InOrder(OpenUris(documents)), gs, heap), heap)
    /\ UNCHANGED << hasConfigurationCapability, hasDiagnosticRelatedInformationCapability,
                    documents, heap, reply, hoverDes, hover, consoleLog >>

(***************************************************************************)
(* The client answers a workspace/configuration request (server.ts:119):   *)
(* with a settings object, with null, or with an error.  The tasks that    *)
(* await it resume (server.ts:141).                                        *)
(***************************************************************************)
ConfigurationResponse(l, value) ==
    /\ CanDispatch
    /\ l \in 1..Len(lookups)
    /\ lookups[l].status = "pending"
    /\ Handle([ServerState EXCEPT !.lookups[l].status = "resolved",
                                  !.lookups[l].value = value], heap)
    /\ UNCHANGED << hasConfigurationCapability, hasDiagnosticRelatedInformationCapability,
                    globalSettings, documents, heap, reply, hoverDes, hover,
                    consoleLog >>

ConfigurationError(l) ==
    /\ CanDispatch
    /\ l \in 1..Len(lookups)
    /\ lookups[l].status = "pending"
    /\ Handle([ServerState EXCEPT !.lookups[l].status = "rejected"], heap)
    /\ UNCHANGED << hasConfigurationCapability, hasDiagnosticRelatedInformationCapability,
                    globalSettings, documents, heap, reply, hoverDes, hover,
                    consoleLog >>

(***************************************************************************)
(* Completion (server.ts:252-418).  The list is fixed; resolve reads row   *)
(* item.data - 1 of the keyword table and dereferences it, which throws a  *)
(* TypeError when the row is undefined; the connection answers a handler   *)
(* that throws with an error response.                                     *)
(***************************************************************************)
CompletionLabels ==
    << "Given", "actions", "Then", "And", "do", "click", "type", "check", "uncheck", "fill",
       "assert", "press", "double_click", "name", "value", "description", "scenarios",
       "steps", "focus", "enabled", "empty", "editable", "hidden", "visible", "available",
       "empty", "contains", "title", "checked" >>

CompletionKinds ==
    << "Property", "Property", "Property", "Property", "Function", "Class", "Function",
       "Function", "Function", "Function", "Property", "Function", "Function", "Variable",
       "Variable", "Variable", "Variable", "Variable", "Function", "Variable", "Variable",
       "Variable", "Variable", "Variable", "Variable", "Variable", "Variable", "Variable",
       "Function" >>

CompletionItems ==
    [i \in 1..Len(CompletionLabels) |->
        [label |-> CompletionLabels[i], kind |-> CompletionKinds[i], data |-> i]]

\* config/keyword.json: rows 0 .. NumKeywords - 1, each with a detail and a documentation
keywordDes ==
    [i \in 0..(NumKeywords - 1) |->
        [label |-> CompletionLabels[i + 1],
         detail |-> << "detail of", CompletionLabels[i + 1] >>,
         documentation |-> << "documentation of", CompletionLabels[i + 1] >>]]

\* the ids a resolve request may carry: those of the table, and some without a row
ResolveIds == (-1)..(NumKeywords + 2)

\* const count = item.data - 1 (server.ts:412)
RowIndex_same(data) == data
RowIndex(data) == data - 1

\* keywordDes[count] (server.ts:413); an index without a row gives undefined
RowAt(count) ==
    IF count \in DOMAIN keywordDes
    THEN [undefined |-> FALSE, row |-> keywordDes[count]]
    ELSE [undefined |-> TRUE, row |-> [label |-> "", detail |-> << >>, documentation |-> << >>]]

\* server.ts:411-417
Resolved_silent(item) ==
    LET temp == RowAt(RowIndex(item.data))
    IN [kind |-> "item", data |-> item.data, undefinedFields |-> temp.undefined,
        detail |-> temp.row.detail, documentation |-> temp.row.documentation]
Resolved(item) ==
    LET temp == RowAt(RowIndex(item.data))
    IN IF temp.undefined
       THEN [kind |-> "error", data |-> item.data, undefinedFields |-> FALSE,
             detail |-> << >>, documentation |-> << >>]
       ELSE [kind |-> "item", data |-> item.data, undefinedFields |-> FALSE,
             detail |-> temp.row.detail, documentation |-> temp.row.documentation]

Completion ==
    /\ CanDispatch
    /\ reply' = [kind |-> "completion", items |-> CompletionItems]
    /\ UNCHANGED << hasConfigurationCapability, hasDiagnosticRelatedInformationCapability,
                    globalSettings, documentSettings, lookups, documents, heap, tasks, sent,
                    hoverDes, hover, consoleLog >>

CompletionResolve(item) ==
    /\ CanDispatch
    /\ reply' = Resolved(item)
    /\ UNCHANGED << hasConfigurationCapability, hasDiagnosticRelatedInformationCapability,
                    globalSettings, documentSettings, lookups, documents, heap, tasks, sent,
                    hoverDes, hover, consoleLog >>

(***************************************************************************)
(* provideHover (extension.ts:58-86), in the client.  The directory of the *)
(* document is classified and logged; the word is the text of the word     *)
(* range at the position, and of the whole document when the position has  *)
(* no word range (getText(undefined)).                                     *)
(***************************************************************************)
Dirs == {"/ws/features", "/ws/steps", "/ws/elements", "/ws/data", "/ws/metadata", "/ws/src"}

\* location.endsWith(suffix)
EndsWith(location, suffix) ==
    << location, suffix >> \in { << "/ws/features", "features" >>, << "/ws/steps", "steps" >>,
                                 << "/ws/elements", "elements" >>, << "/ws/data", "data" >>,
                                 << "/ws/metadata", "data" >> }

\* extension.ts:61-73
Logged(location) ==
    IF EndsWith(location, "features") THEN "Its a feature file"
    ELSE IF EndsWith(location, "steps") THEN "Its a step file"
    ELSE IF EndsWith(location, "elements") THEN "Its an elements file"
    ELSE IF EndsWith(location, "data") THEN "Its a dataset file"
    ELSE ""

NoWord == "<no word range>"
HoverLabels == {"visible", "hidden"}
HoverDocs == {"doc 1", "doc 2"}
HoverWords == {"visible", "Visible", "zzzNotAWord"}
HoverFullTexts == {"", "visible hidden"}

\* extension.ts:75
WordAt(wordRange, fullText) == IF wordRange = NoWord THEN fullText ELSE wordRange

\* element.label == word (extension.ts:77), on two strings
LabelMatches_prefix(label, word) ==
    label = word \/ << label, word >> = << "visible", "Visible" >>
LabelMatches(label, word) == label = word

\* extension.ts:74-80: forEach visits every row and does not stop at a match
RECURSIVE ForEachRow(_, _, _, _)
ForEachRow(table, i, word, return_content) ==
    IF i > Len(table) THEN return_content
    ELSE ForEachRow(table, i + 1, word,
                    IF LabelMatches(table[i].label, word) THEN table[i].documentation
                    ELSE return_content)

provideHover_byDir(table, location, word) ==
    IF EndsWith(location, "data") THEN "" ELSE ForEachRow(table, 1, word, "")
provideHover(table, location, word) == ForEachRow(table, 1, word, "")

Hover(location, wordRange, fullText) ==
    /\ consoleLog' = Logged(location)
    /\ hover' = [kind |-> "hover", location |-> location, wordRange |-> wordRange,
                 fullText |-> fullText,
                 contents |-> << provideHover(hoverDes, location,
                                              WordAt(wordRange, fullText)) >>]
    /\ UNCHANGED << hasConfigurationCapability, hasDiagnosticRelatedInformationCapability,
                    globalSettings, documentSettings, lookups, documents, heap, tasks, sent,
                    reply, hoverDes >>

RECURSIVE TablesOfLen(_)
TablesOfLen(n) ==
    IF n = 0 THEN {<< >>}
    ELSE {Append(t, [label |-> l, documentation |-> d]) :
              t \in TablesOfLen(n - 1), l \in HoverLabels, d \in HoverDocs}

HoverTables == UNION {TablesOfLen(n) : n \in 0..MaxHover}

SampleHoverDes ==
    << [label |-> "visible", documentation |-> "doc 1"],
       [label |-> "hidden", documentation |-> "doc 2"] >>

(***************************************************************************)
(* Specifications.                                                         *)
(***************************************************************************)
UriA == "file:///a"
UriB == "file:///b"

NoMatchText == << "a" >>
TwoMatchText == << "A", "Z", " ", "Z", "A" >>
DocTexts == {NoMatchText, TwoMatchText}

\* the values a client may give for the languageServerExample section; NullSettings is
\* null (a workspace/configuration answer) or an absent section (a notification)
SectionValues == {ExampleSettings(1), ExampleSettings(DefaultMaxNumberOfProblems), NullSettings}

\* the caps of the validator specification
Caps == {0, 1, 2, DefaultMaxNumberOfProblems}

\* the state once the initialize request is answered (server.ts:37-71) and before the
\* first notification, given the two capabilities and the tables
Started(conf, rel, gs, table) ==
    /\ hasConfigurationCapability = conf
    /\ hasDiagnosticRelatedInformationCapability = rel
    /\ globalSettings = gs
    /\ documentSettings = NoEntry
    /\ lookups = << >>
    /\ documents = [u \in URIs |-> 0]
    /\ heap = << >>
    /\ tasks = << >>
    /\ sent = << >>
    /\ reply = [kind |-> "none"]
    /\ hoverDes = table
    /\ hover = [kind |-> "none"]
    /\ consoleLog = ""

\* the messages of the server, for the given documents and values
ServerNext(uris, openTexts, values) ==
    \/ \E u \in uris, text \in openTexts : DidOpen(u, text)
    \/ \E u \in uris, text \in DocTexts : DidChange(u, text)
    \/ \E u \in uris : DidClose(u)
    \/ \E section \in values : DidChangeConfiguration(section)
    \/ \E l \in 1..MaxTasks, value \in values : ConfigurationResponse(l, value)
    \/ \E l \in 1..MaxTasks : ConfigurationError(l)

\* one document, with either kind of client
Init == \E conf \in BOOLEAN : Started(conf, TRUE, defaultSettings, SampleHoverDes)
Next == ServerNext({UriA}, DocTexts, SectionValues)
Spec == Init /\ [][Next]_vars

\* two documents and the requests, with a client that answers every lookup alike
InitDocs == Started(TRUE, TRUE, defaultSettings, SampleHoverDes)
NextDocs ==
    \/ ServerNext(URIs, {TwoMatchText}, {defaultSettings})
    \/ Completion
    \/ CompletionResolve([data |-> 1])
    \/ Hover("/ws/steps", "visible", "visible hidden")
SpecDocs == InitDocs /\ [][NextDocs]_vars

\* the validator on every text up to MaxLen, with a client without the configuration
\* capability whose settings were set before the document opened
InitValidate ==
    \E rel \in BOOLEAN, c \in Caps : Started(FALSE, rel, ExampleSettings(c), SampleHoverDes)
NextValidate ==
    \/ heap = << >> /\ \E text \in AllTexts : DidOpen(UriA, text)
    \/ DidChangeConfiguration(globalSettings)
SpecValidate == InitValidate /\ [][NextValidate]_vars

\* the requests, on every hover table up to MaxHover rows
InitRequests == \E table \in HoverTables : Started(TRUE, TRUE, defaultSettings, table)
NextRequests ==
    \/ Completion
    \/ \E id \in ResolveIds : CompletionResolve([data |-> id])
    \/ \E location \in Dirs, wordRange \in HoverWords \cup {NoWord}, fullText \in HoverFullTexts :
           Hover(location, wordRange, fullText)
SpecRequests == InitRequests /\ [][NextRequests]_vars

(***************************************************************************)
(* What the validator is to publish, stated on the text alone.             *)
(***************************************************************************)
\* the maximal runs of two or more uppercase letters that word boundaries enclose,
\* as pairs of a start offset and an end offset
UppercaseRuns(text) ==
    {r \in (0..Len(text)) \X (0..Len(text)) :
        /\ r[2] - r[1] >= 2
        /\ \A i \in r[1]..(r[2] - 1) : text[i + 1] \in Upper
        /\ r[1] = 0 \/ text[r[1]] \notin WordChars
        /\ r[2] = Len(text) \/ text[r[2] + 1] \notin WordChars}

\* the runs from left to right
RECURSIVE RunsInOrder(_)
RunsInOrder(runs) ==
    IF runs = {} THEN << >>
    ELSE LET first == CHOOSE r \in runs : \A q \in runs : r[1] <= q[1]
         IN << first >> \o RunsInOrder(runs \ {first})

\* the offset of a position: the start of its line plus its character
OffsetAt(text, position) ==
    LET starts == LineStarts(text)
        lineStart == CHOOSE s \in starts :
                         Cardinality({q \in starts : q < s}) = position.line
    IN lineStart + position.character

\* diagnostic d reports run r of text
Reports(d, text, r) ==
    /\ OffsetAt(text, d.range.start) = r[1]
    /\ OffsetAt(text, d.range.end) = r[2]
    /\ d.severity = "Warning"
    /\ d.source = "ex"
    /\ d.message = Slice(text, r[1], r[2]) \o << MsgSuffix >>

\* list ds reports the first min(cap, k) of the k runs of text, in order
ReportsRuns(ds, text, cap) ==
    LET runs == RunsInOrder(UppercaseRuns(text))
    IN /\ Len(ds) = Min({cap, Len(runs)})
       /\ \A i \in 1..Len(ds) : Reports(ds[i], text, runs[i])

\* the notifications of task k
SentBy(k) == {j \in 1..Len(sent) : sent[j].task = k}

(***************************************************************************)
(* C1: a run of validateTaclDocument on a text with k maximal uppercase    *)
(* runs of length two or more between word boundaries, under a cap c >= 0, *)
(* publishes min(c, k) diagnostics; the i-th covers the i-th run from its  *)
(* start offset to its end offset, is a Warning with source "ex" and the   *)
(* message "<run> is all uppercase. Can you please fix that"; with c = 0   *)
(* the list is empty.                                                      *)
(***************************************************************************)
C1_OneDiagnosticPerRunUpToCap ==
    \A j \in 1..Len(sent) :
        LET t == tasks[sent[j].task]
        IN ~t.settings.null /\ t.settings.maxNumberOfProblems >= 0
               => ReportsRuns(sent[j].diagnostics, t.text, t.settings.maxNumberOfProblems)

\* a pass that the cap cut short: two runs in the text, one diagnostic published
C1_Witness ==
    \E j \in 1..Len(sent) :
        /\ tasks[sent[j].task].settings.maxNumberOfProblems = 1
        /\ Cardinality(UppercaseRuns(tasks[sent[j].task].text)) = 2
        /\ Len(sent[j].diagnostics) = 1

(***************************************************************************)
(* C9: two validations of the same text under the same settings (and the   *)
(* same related-information capability, fixed at initialization) publish   *)
(* the same list; nothing the first pass leaves behind reaches the second. *)
(***************************************************************************)
C9_ValidationIsIdempotent ==
    \A i, j \in 1..Len(sent) :
        /\ tasks[sent[i].task].text = tasks[sent[j].task].text
        /\ tasks[sent[i].task].settings = tasks[sent[j].task].settings
        /\ sent[i].uri = sent[j].uri
        => sent[i].diagnostics = sent[j].diagnostics

\* the same text validated twice under a cap that the first pass reached
C9_Witness ==
    \E i, j \in 1..Len(sent) :
        /\ i < j
        /\ tasks[sent[i].task].text = tasks[sent[j].task].text
        /\ tasks[sent[i].task].settings = tasks[sent[j].task].settings
        /\ tasks[sent[j].task].settings.maxNumberOfProblems = 1
        /\ Len(sent[i].diagnostics) = 1
        /\ Cardinality(UppercaseRuns(tasks[sent[i].task].text)) = 2

(***************************************************************************)
(* C2: resolve of an item with data = id answers with the detail and the   *)
(* documentation of keyword row id - 1 when that row exists (data = 1      *)
(* gives row 0); for an id without a row (beyond the table, or <= 0) the   *)
(* call fails with an error, and no item with undefined fields is          *)
(* returned.                                                               *)
(***************************************************************************)
C2_ResolveReadsRowOrFails ==
    reply.kind \in {"item", "error"} =>
        IF reply.data \in 1..NumKeywords
        THEN /\ reply.kind = "item"
             /\ ~reply.undefinedFields
             /\ reply.detail = keywordDes[reply.data - 1].detail
             /\ reply.documentation = keywordDes[reply.data - 1].documentation
        ELSE reply.kind = "error"

\* a resolve of the id just beyond the table has failed
C2_Witness == reply.kind = "error" /\ reply.data = NumKeywords + 1

(***************************************************************************)
(* C3: provideHover answers, for the word under the cursor, with the       *)
(* documentation of the hover row whose label is exactly that word (the    *)
(* last such row when several share the label), and with the empty string  *)
(* when no row has it, whatever the directory of the document.             *)
(***************************************************************************)
C3_HoverIsExactLabelLookup ==
    hover.kind = "hover" /\ hover.wordRange # NoWord =>
        LET rows == {i \in 1..Len(hoverDes) : hoverDes[i].label = hover.wordRange}
        IN hover.contents =
               << IF rows = {} THEN "" ELSE hoverDes[Max(rows)].documentation >>

\* a hover in a data directory found its word in a table that also has other rows
C3_Witness ==
    /\ hover.kind = "hover"
    /\ hover.location = "/ws/data"
    /\ hover.wordRange = "visible"
    /\ hover.contents = << "doc 2" >>
    /\ \E i, j \in 1..Len(hoverDes) :
           hoverDes[i].label = "hidden" /\ hoverDes[j] = [label |-> "visible",
                                                          documentation |-> "doc 2"]

(***************************************************************************)
(* Helpers on the tasks.                                                   *)
(***************************************************************************)
Tasks == 1..Len(tasks)

\* task k has run the part of validateTaclDocument after the await, on a lookup
\* that resolved
Resumed(k) == tasks[k].state \in {"sent", "threw"}

\* task k resumes in this step
Resumes(k) == k \in Tasks /\ tasks[k].state = "awaiting" /\ tasks'[k].state # "awaiting"

\* the position in sent of the one notification of task k
PublishedAt(k) == CHOOSE j \in 1..Len(sent) : sent[j].task = k

\* the latest notification for uri
LastFor(uri) == Max({j \in 1..Len(sent) : sent[j].uri = uri})

(***************************************************************************)
(* C4: a settings lookup that yields no value makes the validation use the *)
(* default cap of 1000; the validation still publishes, in the per-scope   *)
(* mode and in the global mode.                                            *)
(***************************************************************************)
C4_MissingSettingsFallBackToDefault ==
    /\ ~globalSettings.null
    /\ \A k \in Tasks :
           Resumed(k) /\ tasks[k].settings.null
               => \E j \in SentBy(k) :
                      ReportsRuns(sent[j].diagnostics, tasks[k].text,
                                  DefaultMaxNumberOfProblems)

(***************************************************************************)
(* C5: every validation whose settings lookup has resolved has published   *)
(* exactly one notification, for its document's URI, with the complete     *)
(* list computed from the text it read (empty when the text has no run).   *)
(***************************************************************************)
C5_EveryValidationPublishesOnce ==
    \A k \in Tasks :
        Resumed(k) =>
            /\ Cardinality(SentBy(k)) = 1
            /\ \A j \in SentBy(k) :
                   /\ sent[j].uri = tasks[k].uri
                   /\ ReportsRuns(sent[j].diagnostics, tasks[k].text,
                                  IF tasks[k].settings.null THEN DefaultMaxNumberOfProblems
                                  ELSE tasks[k].settings.maxNumberOfProblems)

(***************************************************************************)
(* C6: overlapping validations of one URI are not ordered.  Nothing holds  *)
(* back a validation that a later one has overtaken: when it resumes and   *)
(* completes it publishes, and its list becomes the latest of the URI,     *)
(* also when it is not the validation started last.                        *)
(***************************************************************************)
C6_SupersededValidationStillPublishes ==
    [][\A k \in Tasks :
           Resumes(k) /\ tasks'[k].state = "sent"
               => \E j \in (Len(sent) + 1)..Len(sent') :
                      /\ sent'[j].task = k
                      /\ sent'[j].uri = tasks[k].uri
                      /\ \A i \in (j + 1)..Len(sent') :
                             sent'[i].uri = tasks[k].uri => sent'[i].task > k]_vars

\* task k started first and was superseded by a change of the same document (task m,
\* the validation started last for the URI) while its lookup was pending; m published
\* first, k after it with a different list, and k's list is the latest of the URI
C6_Witness ==
    \E k, m \in Tasks :
        /\ k < m
        /\ tasks[k].uri = tasks[m].uri
        /\ tasks[k].obj = tasks[m].obj
        /\ tasks[m].kind = "change"
        /\ \A n \in Tasks : tasks[n].uri = tasks[k].uri => n <= m
        /\ tasks[k].state = "sent" /\ tasks[m].state = "sent"
        /\ PublishedAt(m) < PublishedAt(k)
        /\ LastFor(tasks[k].uri) = PublishedAt(k)
        /\ sent[PublishedAt(k)].diagnostics # sent[PublishedAt(m)].diagnostics

(***************************************************************************)
(* C7: every key of documentSettings is the URI of an open document;       *)
(* closing a document removes its entry; a configuration change, with the  *)
(* configuration capability, leaves no entry that existed before it; and a *)
(* validation awaits the lookup cached for its URI or one issued for it,   *)
(* so none started after the change awaits a lookup issued before it.      *)
(***************************************************************************)
C7_KeysAreOpen == \A u \in URIs : documentSettings[u] # 0 => documents[u] # 0

C7_CloseRemoves == \A u \in URIs : DidClose(u) => documentSettings'[u] = 0

C7_ChangeClears ==
    (hasConfigurationCapability /\ \E section \in SectionValues :
                                       DidChangeConfiguration(section))
        => /\ \A u \in URIs : documentSettings'[u] = 0 \/ documentSettings'[u] > Len(lookups)
           /\ \A k \in (Len(tasks) + 1)..Len(tasks') : tasks'[k].lookup > Len(lookups)

C7_StartsUseCache ==
    \A k \in (Len(tasks) + 1)..Len(tasks') :
        hasConfigurationCapability
            => /\ tasks'[k].lookup = documentSettings'[tasks'[k].uri]
               /\ \/ tasks'[k].lookup > Len(lookups)
                  \/ tasks'[k].lookup = documentSettings[tasks'[k].uri]

C7_SettingsCacheHoldsOpenDocumentsOnly ==
    /\ []C7_KeysAreOpen
    /\ [][C7_CloseRemoves /\ C7_ChangeClears /\ C7_StartsUseCache]_vars

\* a configuration change replaced the entry of an open document whose earlier
\* lookup is still awaited
C7_Witness ==
    \E k, m \in Tasks :
        /\ k < m
        /\ tasks[k].uri = tasks[m].uri
        /\ tasks[m].kind = "config"
        /\ tasks[k].state = "awaiting"
        /\ tasks[k].lookup # 0
        /\ tasks[m].lookup > tasks[k].lookup
        /\ documentSettings[tasks[m].uri] = tasks[m].lookup

(***************************************************************************)
(* C10: a validation reads the text after its lookup resolved, from the    *)
(* document object that changes update in place: when its document is      *)
(* still the open document of the URI as it publishes, the list is         *)
(* computed from the text that document then holds.                        *)
(***************************************************************************)
C10_PublishesFromCurrentText ==
    [][\A k \in Tasks :
           Resumes(k) /\ tasks'[k].state = "sent" /\ documents'[tasks[k].uri] = tasks[k].obj
               => /\ tasks'[k].text = heap'[documents'[tasks[k].uri]].text
                  /\ \E j \in (Len(sent) + 1)..Len(sent') :
                         /\ sent'[j].task = k
                         /\ ReportsRuns(sent'[j].diagnostics,
                                        heap'[documents'[tasks[k].uri]].text,
                                        tasks'[k].settings.maxNumberOfProblems)]_vars

\* a validation of a document that changed while its lookup was pending, and is
\* still open, has published the runs of the new text
C10_Witness ==
    \E k \in Tasks :
        /\ tasks[k].state = "sent"
        /\ documents[tasks[k].uri] = tasks[k].obj
        /\ tasks[k].lookup # 0
        /\ tasks[k].startText = NoMatchText
        /\ tasks[k].text = TwoMatchText
        /\ Len(sent[PublishedAt(k)].diagnostics) = 2

(***************************************************************************)
(* C8: a pending settings lookup suspends only the validations that await  *)
(* it.  While a validation of document a waits, the server still takes     *)
(* open, change and close notifications and configuration answers for any  *)
(* other document b, and completion, resolve and hover requests; and a     *)
(* validation is suspended only while the lookup of its own URI is         *)
(* unanswered.                                                             *)
(***************************************************************************)
Waiting(a) == \E k \in Tasks : tasks[k].uri = a /\ tasks[k].state = "awaiting"

C8_PendingLookupSuspendsOnlyItsDocument ==
    /\ \A k \in Tasks :
           tasks[k].state = "awaiting"
               => /\ tasks[k].lookup # 0
                  /\ lookups[tasks[k].lookup].status = "pending"
                  /\ lookups[tasks[k].lookup].uri = tasks[k].uri
    /\ \A a \in URIs :
           Waiting(a) =>
               /\ ENABLED Completion
               /\ ENABLED CompletionResolve([data |-> 1])
               /\ ENABLED Hover("/ws/steps", "visible", "visible hidden")
               /\ \A b \in URIs \ {a} :
                      /\ documents[b] # 0 => ENABLED DidClose(b)
                      /\ documents[b] # 0 /\ Room(1)
                             => ENABLED (\E text \in DocTexts : DidChange(b, text))
                      /\ documents[b] = 0 /\ Room(1) => ENABLED DidOpen(b, TwoMatchText)
                      /\ \A l \in 1..Len(lookups) :
                             lookups[l].uri = b /\ lookups[l].status = "pending"
                                 => ENABLED ConfigurationResponse(l, defaultSettings)

\* the validation of one document still waits for its settings; a validation of the
\* other document started after it and has published; requests were answered
C8_Witness ==
    \E k, m \in Tasks :
        /\ k < m
        /\ tasks[k].uri # tasks[m].uri
        /\ tasks[k].state = "awaiting"
        /\ tasks[m].state = "sent"
        /\ reply.kind = "item"
        /\ hover.kind = "hover"

====
